---------------------------- MODULE Spec2Model ----------------------------
(***************************************************************************)
(* MuddySwamp: the import pipeline of mudimport.py (Library, Importer and  *)
(* its three variants, process_json), the macro tokenizer and renderer of  *)
(* util/stocstring.py (StocString, StringMacro) and EquipTarget of item.py.*)
(*                                                                         *)
(* Seven specifications: Spec (import_files over the three importers of a  *)
(* Library), SpecTok (the scan of StocString.__init__), SpecRender (the    *)
(* scan, then str() of the StocString), SpecLoad (one import_file call,    *)
(* process_json taken step by step), SpecDistr (class imports and          *)
(* build_class_distr), SpecDefault (importers made without a lib argument) *)
(* and SpecEquip (EquipTarget constructions).                              *)
(*                                                                         *)
(* A Python dict is a function whose DOMAIN is its key set.  A file's      *)
(* content is a record saying what reading, templating and json.loads     *)
(* give for it, and, for a top-level mapping, what its fields hold.        *)
(***************************************************************************)
EXTENDS Integers, Sequences, FiniteSets, TLC

VARIABLES
    lib,            \* Importer.objects       per importer: the dict it refers to
    objects,        \* Importer.objects       per importer: name -> object
    object_source,  \* Importer.object_source per importer: name -> filename
    file_data,      \* Importer.file_data     per importer: filename -> json_data
    file_fails,     \* Importer.file_fails    per importer: filename -> reason
    failures,       \* Importer.failures      per importer: name -> reason
    frequency,      \* the frequency attribute of each resolvable class
    nextId,         \* identity of the next Location instance created
    pc,             \* Library.import_files: "idle" or "running"
    args,           \* the three lists the current/last import_files call got
    trace,          \* the import_file calls that call has made, in order
    result,         \* how the last import_files call ended
    ncalls,         \* import_file calls made since construction
    input,          \* StocString.original, as a sequence of characters
    pos,            \* characters of input consumed by the scan
    tokens,         \* StocString.tokens
    depth,          \* StocString.__init__: depth
    macro_started,  \* StocString.__init__: macro_started
    prev,           \* StocString.__init__: prev
    tpc,            \* the scan: "scan" or "done"
    rpc,            \* StocString.__str__: "idle", "render", "rendered", "failed"
    rpos,           \* StocString.__str__: tokens the loop has gone through
    output,         \* StocString.__str__: output
    evals,          \* the eval calls the current __str__ call has made
    renders,        \* what the __str__ calls made so far gave their callers
    lpc,            \* process_json run step by step: where the call is
    lfile,          \* the file at the path that call is given
    handle_open,    \* process_json: location_file is open
    lexc,           \* process_json: what made the with block raise, if it did
    lparsed,        \* process_json: json.loads has been called
    random_class,   \* Library.random_class
    builds,         \* how the build_class_distr calls made so far ended
    next_id,        \* EquipTarget.next_id
    targets,        \* EquipTarget._targets: name -> instance
    heap,           \* the EquipTarget instances: instance -> its attributes
    made            \* the EquipTarget(name) calls made so far and what they gave

impVars == <<lib, objects, object_source, file_data, file_fails, failures,
             frequency, nextId, pc, args, trace, result, ncalls>>
tokVars == <<input, pos, tokens, depth, macro_started, prev, tpc>>
rendVars == <<rpc, rpos, output, evals, renders>>
loadVars == <<lpc, lfile, handle_open, lexc, lparsed>>
distVars == <<random_class, builds>>
equipVars == <<next_id, targets, heap, made>>
vars == <<lib, objects, object_source, file_data, file_fails, failures,
          frequency, nextId, pc, args, trace, result, ncalls,
          input, pos, tokens, depth, macro_started, prev, tpc,
          rpc, rpos, output, evals, renders,
          lpc, lfile, handle_open, lexc, lparsed,
          random_class, builds,
          next_id, targets, heap, made>>

---------------------------------------------------------------------------
(* Bounds *)

\* import_file calls made in one behaviour
MaxCalls == 2

\* str() calls made on one StocString
MaxRenders == 2

\* characters of the file a step-by-step load reads
MaxFileLen == 4

\* build_class_distr calls made in one behaviour
MaxBuilds == 2

\* EquipTarget(name) calls made in one behaviour
MaxMade == 3
\* length of the text handed to the tokenizer
MaxLen == 7

---------------------------------------------------------------------------
(* Dicts *)

EmptyDict == [k \in {} |-> k]

Put(d, k, v) == [x \in (DOMAIN d) \cup {k} |-> IF x = k THEN v ELSE d[x]]

---------------------------------------------------------------------------
(* The three importers of a Library, in the order import_files drives them *)

Imp == {"loc", "char", "item"}

Paths == {"f1", "f2"}

(* Field values.  A field holds a text or one of two marks: the field is   *)
(* missing from the mapping, or it holds a value of another JSON type.     *)
Absent == "<absent>"
NonText == "<nontext>"

(* Modules importlib can load and the symbols getattr finds in them.       *)
Modules == {"mod"}
ModSymbols == {"A", "B"}

NoFreq == [type |-> "absent", val |-> 0]

Base == [load |-> "ok", name |-> "A", description |-> Absent, items |-> Absent,
         exits |-> Absent, path |-> Absent, frequency |-> NoFreq]

(* Files whose load fails: open/read raises, a macro's eval raises,        *)
(* json.loads raises, the top-level value is no mapping, "name" is         *)
(* missing or is not a str.                                                *)
LoadFailFiles ==
    {[Base EXCEPT !.load = l] : l \in {"unreadable", "macro_error", "bad_json", "not_mapping"}}
    \cup {[Base EXCEPT !.name = n] : n \in {Absent, NonText}}

LocationFiles ==
    {[Base EXCEPT !.name = n, !.description = "d1"] : n \in {"A", "B", ""}}
    \cup {[Base EXCEPT !.description = "d2", !.items = "dict", !.exits = "list"],
          [Base EXCEPT !.description = "d1", !.items = "list"],
          [Base EXCEPT !.description = "d1", !.exits = "dict"],
          [Base EXCEPT !.items = "list"]}

PlainClassFile == [Base EXCEPT !.path = "mod"]

ClassFiles ==
    {[PlainClassFile EXCEPT !.frequency = f] :
        f \in {NoFreq, [type |-> "float", val |-> 2], [type |-> "float", val |-> 0],
               [type |-> "int", val |-> 1]}}
    \cup {[Base EXCEPT !.path = "nomod"],
          [Base EXCEPT !.name = "C", !.path = "mod"]}

(* The files each importer is run on.  A class file has no "description"   *)
(* and a location file has no "path".                                      *)
FilesFor(i) ==
    CASE i = "loc"  -> LoadFailFiles \cup LocationFiles \cup {PlainClassFile}
      [] i = "char" -> {[Base EXCEPT !.load = "unreadable"], [Base EXCEPT !.name = Absent]}
                       \cup ClassFiles \cup {[Base EXCEPT !.description = "d1"]}
      [] i = "item" -> {[Base EXCEPT !.load = "bad_json"], PlainClassFile,
                        [Base EXCEPT !.path = "nomod"],
                        [Base EXCEPT !.name = "C", !.path = "mod"],
                        [Base EXCEPT !.path = NonText],
                        [Base EXCEPT !.description = "d1"]}

Files == UNION {FilesFor(i) : i \in Imp}

---------------------------------------------------------------------------
(* process_json: the exception it raises for content c, "" when it returns *)

process_json_NoTypeCheck(c) ==
    CASE c.load = "unreadable"  -> "OSError"
      [] c.load = "macro_error" -> "NameError"
      [] c.load = "bad_json"    -> "JSONDecodeError"
      [] c.load = "not_mapping" -> "TypeError"
      [] c.name = Absent -> "AssertionError"
      [] OTHER -> ""

process_json(c) ==
    CASE c.load = "unreadable"  -> "OSError"
      [] c.load = "macro_error" -> "NameError"
      [] c.load = "bad_json"    -> "JSONDecodeError"
      [] c.load = "not_mapping" -> "TypeError"
      [] c.name \in {Absent, NonText} -> "AssertionError"
      [] OTHER -> ""

---------------------------------------------------------------------------
(* _do_import.  An outcome is what the call gives import_file: a returned  *)
(* (key, object) pair, or an exception, which carries a name attribute     *)
(* only when an except clause of _do_import set it.                        *)

NoObject == [id |-> 0, kind |-> "", name |-> "", description |-> ""]

Return(key, obj, setfreq, freq) ==
    [raised |-> FALSE, exc |-> "", hasname |-> FALSE, exname |-> "",
     key |-> key, obj |-> obj, setfreq |-> setfreq, freq |-> freq]

Raise(exc, hasname, exname) ==
    [raised |-> TRUE, exc |-> exc, hasname |-> hasname, exname |-> exname,
     key |-> "", obj |-> NoObject, setfreq |-> FALSE, freq |-> 0]

Location_DropsDescription(id, name, description) ==
    [id |-> id, kind |-> "Location", name |-> name, description |-> name]

Location(id, name, description) ==
    [id |-> id, kind |-> "Location", name |-> name, description |-> description]

LocationDoImport_NoExitsCheck(c, id) ==
    IF c.items # Absent /\ c.items # "dict"
      THEN Raise("AssertionError", TRUE, c.name)
    ELSE IF c.description = Absent
      THEN Raise("KeyError", FALSE, "")
    ELSE Return(c.name, Location(id, c.name, c.description), FALSE, 0)

LocationDoImport(c, id) ==
    IF c.items # Absent /\ c.items # "dict"
      THEN Raise("AssertionError", TRUE, c.name)
    ELSE IF c.exits # Absent /\ c.exits # "list"
      THEN Raise("AssertionError", TRUE, c.name)
    ELSE IF c.description = Absent
      THEN Raise("KeyError", FALSE, "")
    ELSE Return(c.name, Location(id, c.name, c.description), FALSE, 0)

(* A resolved symbol is the class itself: the same object on every import. *)
ClassObject(module, symbol) ==
    [id |-> 0, kind |-> "class", name |-> symbol, description |-> module]

(* str() of a class whose metaclass defines no __str__ *)
StrOfClass(module, symbol) == "<class '" \o module \o "." \o symbol \o "'>"

Resolve(c) ==
    IF c.path = Absent THEN "KeyError"
    ELSE IF c.path = NonText THEN "AttributeError"
    ELSE IF c.path \notin Modules THEN "ModuleNotFoundError"
    ELSE IF c.name \notin ModSymbols THEN "AttributeError"
    ELSE ""

(* _do_import that assigns the frequency before it checks its type *)
CharacterClassDoImport_AssignsFirst(c) ==
    IF Resolve(c) # "" THEN Raise(Resolve(c), TRUE, c.name)
    ELSE IF c.frequency.type = "int"
      THEN [Raise("AssertionError", TRUE, c.name) EXCEPT
               !.key = StrOfClass(c.path, c.name), !.setfreq = TRUE,
               !.freq = c.frequency.val]
    ELSE Return(StrOfClass(c.path, c.name), ClassObject(c.path, c.name),
                c.frequency.type = "float", c.frequency.val)

CharacterClassDoImport(c) ==
    IF Resolve(c) # "" THEN Raise(Resolve(c), TRUE, c.name)
    ELSE IF c.frequency.type = "int" THEN Raise("AssertionError", TRUE, c.name)
    ELSE Return(StrOfClass(c.path, c.name), ClassObject(c.path, c.name),
                c.frequency.type = "float", c.frequency.val)

ItemDoImport(c) ==
    IF Resolve(c) # "" THEN Raise(Resolve(c), TRUE, c.name)
    ELSE Return(StrOfClass(c.path, c.name), ClassObject(c.path, c.name), FALSE, 0)

DoImport(i, c, id) ==
    CASE i = "loc"  -> LocationDoImport(c, id)
      [] i = "char" -> CharacterClassDoImport(c)
      [] i = "item" -> ItemDoImport(c)

---------------------------------------------------------------------------
(* Library.import_files *)

Tag(i, s) == [k \in 1..Len(s) |-> <<i, s[k]>>]

(* The import_file calls import_files makes when none of them raises *)
Todo(a) == Tag("loc", a.loc) \o Tag("char", a.char) \o Tag("item", a.item)

NoArgs == [loc |-> <<>>, char |-> <<>>, item |-> <<>>]

PathSeqs(n) == UNION {[1..m -> Paths] : m \in 0..n}

(* import_files that starts every call from empty failure records *)
ImportFilesCall_ResetsFailures(a) ==
    /\ pc = "idle"
    /\ Len(Todo(a)) >= 1
    /\ ncalls + Len(Todo(a)) <= MaxCalls
    /\ pc' = "running"
    /\ args' = a
    /\ trace' = <<>>
    /\ result' = "none"
    /\ file_fails' = [i \in Imp |-> EmptyDict]
    /\ failures' = [i \in Imp |-> EmptyDict]
    /\ UNCHANGED <<lib, objects, object_source, file_data, frequency, nextId, ncalls>>
    /\ UNCHANGED <<tokVars, rendVars, loadVars, distVars, equipVars>>

ImportFilesCall(a) ==
    /\ pc = "idle"
    /\ Len(Todo(a)) >= 1
    /\ ncalls + Len(Todo(a)) <= MaxCalls
    /\ pc' = "running"
    /\ args' = a
    /\ trace' = <<>>
    /\ result' = "none"
    /\ UNCHANGED <<lib, objects, object_source, file_data, file_fails, failures,
                   frequency, nextId, ncalls>>
    /\ UNCHANGED <<tokVars, rendVars, loadVars, distVars, equipVars>>

(* What the end of one import_file call means for the loop around it *)
Continue(escaped) ==
    /\ pc' = IF escaped \/ Len(trace') = Len(Todo(args)) THEN "idle" ELSE "running"
    /\ result' = IF escaped THEN "raised"
                 ELSE IF Len(trace') = Len(Todo(args)) THEN "returned" ELSE "none"

(* import_file, lines 96-98: process_json raised ex *)
LoadFailed(i, filename, ex) ==
    /\ file_fails' = [file_fails EXCEPT ![i] = Put(@, filename, ex)]
    /\ UNCHANGED <<objects, object_source, file_data, failures, frequency, nextId>>
    /\ Continue(FALSE)

(* self.objects[name] = game_object on importer i: the item is set in the  *)
(* dict i.objects refers to, and so in the objects of every importer that  *)
(* refers to the same dict                                                 *)
SetObject(i, name, game_object) ==
    [j \in Imp |-> IF lib[j] = lib[i] THEN Put(objects[j], name, game_object)
                   ELSE objects[j]]

(* import_file, lines 100-102: _do_import returned r *)
Converted_KeepFirst(i, filename, r) ==
    /\ objects' = IF r.key \in DOMAIN objects[i] THEN objects
                  ELSE SetObject(i, r.key, r.obj)
    /\ object_source' = [object_source EXCEPT ![i] = Put(@, r.key, filename)]
    /\ UNCHANGED failures
    /\ Continue(FALSE)

Converted(i, filename, r) ==
    /\ objects' = SetObject(i, r.key, r.obj)
    /\ object_source' = [object_source EXCEPT ![i] = Put(@, r.key, filename)]
    /\ UNCHANGED failures
    /\ Continue(FALSE)

(* import_file, lines 103-104: _do_import raised r.  Reading ex.name of an *)
(* exception that has no such attribute raises AttributeError inside the   *)
(* except clause, and nothing around it catches that.                      *)
ConvertFailed_DropsEntry(i, r) ==
    IF r.hasname
      THEN /\ failures' = [failures EXCEPT ![i] = Put(@, r.exname, r.exc)]
           /\ objects' = [objects EXCEPT ![i] =
                             [k \in (DOMAIN @) \ {r.exname} |-> @[k]]]
           /\ UNCHANGED object_source
           /\ Continue(FALSE)
    ELSE /\ UNCHANGED <<objects, object_source, failures>>
         /\ Continue(TRUE)

ConvertFailed(i, r) ==
    IF r.hasname
      THEN /\ failures' = [failures EXCEPT ![i] = Put(@, r.exname, r.exc)]
           /\ UNCHANGED <<objects, object_source>>
           /\ Continue(FALSE)
    ELSE /\ UNCHANGED <<objects, object_source, failures>>
         /\ Continue(TRUE)

(* Importer.import_file(filename) on importer i, the file holding c.  The  *)
(* frequency assignment of CharacterClassImporter._do_import and the       *)
(* Location the LocationImporter constructs are effects of _do_import.     *)
import_file(i, filename, c) ==
    LET ex == process_json(c)
        r == DoImport(i, c, nextId)
    IN  IF ex # ""
          THEN LoadFailed(i, filename, ex)
        ELSE /\ file_data' = [file_data EXCEPT ![i] = Put(@, filename, c)]
             /\ frequency' = IF r.setfreq THEN Put(frequency, r.key, r.freq)
                             ELSE frequency
             /\ nextId' = IF i = "loc" /\ ~r.raised THEN nextId + 1 ELSE nextId
             /\ UNCHANGED file_fails
             /\ IF ~r.raised THEN Converted(i, filename, r) ELSE ConvertFailed(i, r)

(* One turn of the loops of import_files: the next call of the batch *)
ImportFileCall(i, filename, c) ==
    /\ pc = "running"
    /\ Len(trace) < Len(Todo(args))
    /\ Todo(args)[Len(trace) + 1] = <<i, filename>>
    /\ trace' = Append(trace, <<i, filename>>)
    /\ ncalls' = ncalls + 1
    /\ import_file(i, filename, c)
    /\ UNCHANGED <<args, lib>>
    /\ UNCHANGED <<distVars, equipVars>>

(* The same, the load taken as one step *)
ImportFile(i, filename, c) ==
    /\ ImportFileCall(i, filename, c)
    /\ UNCHANGED <<tokVars, rendVars, loadVars>>

---------------------------------------------------------------------------
(* util/stocstring.py.  A text is a sequence of characters; a token is a   *)
(* str (macro FALSE) or a StringMacro holding _original (macro TRUE).      *)

Chars == {"!", "{", "}", "a"}

Texts == UNION {[1..n -> Chars] : n \in 0..MaxLen}

Str(t) == [macro |-> FALSE, text |-> t]

StartsWith(s, t) == Len(s) >= Len(t) /\ SubSeq(s, 1, Len(t)) = t

EndsWith(s, t) == Len(s) >= Len(t) /\ SubSeq(s, Len(s) - Len(t) + 1, Len(s)) = t

(* a macro token that drops the last character of its expression too *)
StringMacro_DropsLastChar(s) == [macro |-> TRUE, text |-> SubSeq(s, 3, Len(s) - 2)]

(* a macro token that keeps the text as written, braces included *)
StringMacro_KeepsBraces(s) == [macro |-> TRUE, text |-> s]

(* StringMacro.__init__: input_string[2:-1] when it has the macro's braces *)
StringMacro(s) ==
    [macro |-> TRUE,
     text |-> IF StartsWith(s, <<"!", "{">>) /\ EndsWith(s, <<"}">>)
                THEN SubSeq(s, 3, Len(s) - 1)
              ELSE s]

(* depth after a character read inside a macro *)
DepthAfter_IgnoresOpen(ch, d) == IF ch = "}" THEN d - 1 ELSE d

DepthAfter(ch, d) ==
    IF ch = "{" THEN d + 1
    ELSE IF ch = "}" THEN d - 1
    ELSE d

SetLast(ts, t) == [ts EXCEPT ![Len(ts)] = t]

(* A scan that ends a macro at its first '}', whatever the depth *)
ScanChar_ClosesAtFirstBrace ==
    /\ tpc = "scan"
    /\ pos < Len(input)
    /\ LET ch == input[pos + 1]
           cur == Append(tokens[Len(tokens)].text, ch)
       IN  /\ IF macro_started
                THEN /\ depth' = DepthAfter(ch, depth)
                     /\ IF ch = "}"
                          THEN /\ macro_started' = FALSE
                               /\ tokens' = Append(SetLast(tokens, StringMacro(cur)),
                                                   Str(<<>>))
                        ELSE /\ macro_started' = macro_started
                             /\ tokens' = SetLast(tokens, Str(cur))
              ELSE IF ch = "{" /\ prev = "!"
                THEN /\ macro_started' = TRUE
                     /\ tokens' = Append(SetLast(tokens, Str(SubSeq(cur, 1, Len(cur) - 2))),
                                         Str(<<"!", "{">>))
                     /\ depth' = depth + 1
              ELSE /\ tokens' = SetLast(tokens, Str(cur))
                   /\ UNCHANGED <<depth, macro_started>>
           /\ prev' = ch
    /\ pos' = pos + 1
    /\ UNCHANGED <<input, tpc>>
    /\ UNCHANGED <<impVars, rendVars, loadVars, distVars, equipVars>>

(* One turn of the loop of StocString.__init__ *)
ScanChar ==
    /\ tpc = "scan"
    /\ pos < Len(input)
    /\ LET ch == input[pos + 1]
           cur == Append(tokens[Len(tokens)].text, ch)
       IN  /\ IF macro_started
                THEN /\ depth' = DepthAfter(ch, depth)
                     /\ IF ch = "}" /\ depth' = 0
                          THEN /\ macro_started' = FALSE
                               /\ tokens' = Append(SetLast(tokens, StringMacro(cur)),
                                                   Str(<<>>))
                        ELSE /\ macro_started' = macro_started
                             /\ tokens' = SetLast(tokens, Str(cur))
              ELSE IF ch = "{" /\ prev = "!"
                THEN /\ macro_started' = TRUE
                     /\ tokens' = Append(SetLast(tokens, Str(SubSeq(cur, 1, Len(cur) - 2))),
                                         Str(<<"!", "{">>))
                     /\ depth' = depth + 1
              ELSE /\ tokens' = SetLast(tokens, Str(cur))
                   /\ UNCHANGED <<depth, macro_started>>
           /\ prev' = ch
    /\ pos' = pos + 1
    /\ UNCHANGED <<input, tpc>>
    /\ UNCHANGED <<impVars, rendVars, loadVars, distVars, equipVars>>

(* The loop ends: __init__ returns *)
ScanEnd ==
    /\ tpc = "scan"
    /\ pos = Len(input)
    /\ tpc' = "done"
    /\ UNCHANGED <<input, pos, tokens, depth, macro_started, prev>>
    /\ UNCHANGED <<impVars, rendVars, loadVars, distVars, equipVars>>

---------------------------------------------------------------------------
(* Rendering: StocString.__str__ and StringMacro.__str__/execute.  What    *)
(* eval gives for an expression lies outside the text: each call draws its *)
(* outcome, a result or an exception.                                      *)

\* str(eval(...)) of a call that returns
Results == {<<"1">>, <<"2">>}

\* an outcome of eval: a result, or an exception
Outcomes ==
    {[raised |-> FALSE, value |-> r] : r \in Results}
        \cup {[raised |-> TRUE, value |-> <<>>]}

(* execute that keeps its first result on the token and gives it again *)
execute_Memoizes(t, o) ==
    IF "cached" \in DOMAIN t
      THEN [evaluated |-> FALSE, raised |-> FALSE, value |-> t.cached, token |-> t]
    ELSE IF o.raised
      THEN [evaluated |-> TRUE, raised |-> TRUE, value |-> <<>>, token |-> t]
    ELSE [evaluated |-> TRUE, raised |-> FALSE, value |-> o.value,
          token |-> [macro |-> TRUE, text |-> t.text, cached |-> o.value]]

(* execute that gives the empty text when eval raises *)
execute_SwallowsError(t, o) ==
    [evaluated |-> TRUE, raised |-> FALSE, value |-> o.value, token |-> t]

(* StringMacro.__str__ on token t when eval's outcome is o: eval is called *)
(* on _original and nothing is assigned to the token                       *)
execute(t, o) ==
    [evaluated |-> TRUE, raised |-> o.raised, value |-> o.value, token |-> t]

(* output += piece *)
Add_Prepends(out, piece) == piece \o out

Add(out, piece) == out \o piece

\* what a caller of __str__ gets: the text returned, or an exception
Returned(text) == [ok |-> TRUE, text |-> text]

Failed == [ok |-> FALSE, text |-> <<>>]

(* str(stoc) is called on the StocString built by the scan *)
RenderStart ==
    /\ tpc = "done"
    /\ rpc \in {"idle", "rendered", "failed"}
    /\ Len(renders) < MaxRenders
    /\ rpc' = "render"
    /\ rpos' = 0
    /\ output' = <<>>
    /\ evals' = <<>>
    /\ UNCHANGED renders
    /\ UNCHANGED <<impVars, tokVars, loadVars, distVars, equipVars>>

(* One turn of the loop of StocString.__str__: output += str(token) *)
RenderToken ==
    /\ rpc = "render"
    /\ rpos < Len(tokens)
    /\ LET k == rpos + 1
           t == tokens[k]
       IN  IF ~t.macro
             THEN /\ output' = Add(output, t.text)
                  /\ rpos' = k
                  /\ UNCHANGED <<rpc, evals, renders, tokens>>
           ELSE \E o \in Outcomes :
                  LET x == execute(t, o)
                  IN  /\ tokens' = [tokens EXCEPT ![k] = x.token]
                      /\ evals' = IF x.evaluated
                                    THEN Append(evals, [token |-> k, value |-> o.value,
                                                        raised |-> o.raised])
                                  ELSE evals
                      /\ IF x.raised
                           THEN /\ rpc' = "failed"
                                /\ renders' = Append(renders, Failed)
                                /\ UNCHANGED <<output, rpos>>
                         ELSE /\ output' = Add(output, x.value)
                              /\ rpos' = k
                              /\ UNCHANGED <<rpc, renders>>
    /\ UNCHANGED <<input, pos, depth, macro_started, prev, tpc>>
    /\ UNCHANGED <<impVars, loadVars, distVars, equipVars>>

(* The loop ends: return output *)
RenderEnd ==
    /\ rpc = "render"
    /\ rpos = Len(tokens)
    /\ rpc' = "rendered"
    /\ renders' = Append(renders, Returned(output))
    /\ UNCHANGED <<rpos, output, evals>>
    /\ UNCHANGED <<impVars, tokVars, loadVars, distVars, equipVars>>

---------------------------------------------------------------------------
(* The frequency a class has before any import assigns one: the class's    *)
(* own default, which the importer leaves alone when the record has no     *)
(* "frequency" field.                                                      *)
InitialFrequency ==
    [k \in {StrOfClass(m, s) : m \in Modules, s \in ModSymbols} |-> 1]

(* Library.__init__ gives each importer a dict of its own *)
LibraryDicts == [loc |-> "locations", char |-> "char_classes", item |-> "items"]

(* Importers made without argument: objects is the default value of lib,   *)
(* one dict per __init__ that declares it (LocationImporter.__init__ and   *)
(* Importer.__init__, which the class and item importers inherit)          *)
DefaultDicts ==
    [loc  |-> "LocationImporter.__init__.lib",
     char |-> "Importer.__init__.lib",
     item |-> "Importer.__init__.lib"]

InitImp ==
    /\ lib = LibraryDicts
    /\ objects = [i \in Imp |-> EmptyDict]
    /\ object_source = [i \in Imp |-> EmptyDict]
    /\ file_data = [i \in Imp |-> EmptyDict]
    /\ file_fails = [i \in Imp |-> EmptyDict]
    /\ failures = [i \in Imp |-> EmptyDict]
    /\ frequency = InitialFrequency
    /\ nextId = 1
    /\ pc = "idle"
    /\ args = NoArgs
    /\ trace = <<>>
    /\ result = "none"
    /\ ncalls = 0

InitRendIdle ==
    /\ rpc = "idle"
    /\ rpos = 0
    /\ output = <<>>
    /\ evals = <<>>
    /\ renders = <<>>

\* no file: nothing can be opened at the path
NoFile == [readable |-> "no_open", text |-> <<>>]

InitLoadIdle ==
    /\ lpc = "idle"
    /\ lfile = NoFile
    /\ handle_open = FALSE
    /\ lexc = ""
    /\ lparsed = FALSE

\* Library.__init__: self.random_class = None
None == [built |-> FALSE, items |-> <<>>, weights |-> <<>>]

\* class EquipTarget: next_id = 0, _targets = {}; no instance exists
InitEquip ==
    /\ next_id = 0
    /\ targets = EmptyDict
    /\ heap = EmptyDict
    /\ made = <<>>

InitDistr ==
    /\ random_class = None
    /\ builds = <<>>

InitTokIdle ==
    /\ input = <<>>
    /\ pos = 0
    /\ tokens = <<>>
    /\ depth = 0
    /\ macro_started = FALSE
    /\ prev = ""
    /\ tpc = "done"

Init == InitImp /\ InitTokIdle /\ InitRendIdle /\ InitLoadIdle /\ InitDistr /\ InitEquip

NextJob == Todo(args)[Len(trace) + 1]

(* A caller calls import_files with lists that make 1..MaxCalls - ncalls   *)
(* import_file calls (a call with three empty lists changes nothing)       *)
ImportFilesStep ==
    /\ pc = "idle"
    /\ \E l \in PathSeqs(MaxCalls - ncalls) :
       \E c \in PathSeqs(MaxCalls - ncalls - Len(l)) :
       \E i \in PathSeqs(MaxCalls - ncalls - Len(l) - Len(c)) :
          ImportFilesCall([loc |-> l, char |-> c, item |-> i])

(* The running import_files call makes its next import_file call *)
ImportFileStep ==
    /\ pc = "running"
    /\ \E c \in FilesFor(NextJob[1]) : ImportFile(NextJob[1], NextJob[2], c)

Next == ImportFilesStep \/ ImportFileStep

Spec == Init /\ [][Next]_vars

(* StocString(input_string) for every text of at most MaxLen characters *)
InitTok ==
    /\ InitImp
    /\ input \in Texts
    /\ pos = 0
    /\ tokens = <<Str(<<>>)>>
    /\ depth = 0
    /\ macro_started = FALSE
    /\ prev = ""
    /\ tpc = "scan"
    /\ InitRendIdle
    /\ InitLoadIdle
    /\ InitDistr
    /\ InitEquip

NextTok == ScanChar \/ ScanEnd

SpecTok == InitTok /\ [][NextTok]_vars

(* The StocString of every text, then str() of it up to MaxRenders times *)
NextRender == ScanChar \/ ScanEnd \/ RenderStart \/ RenderToken \/ RenderEnd

SpecRender == InitTok /\ [][NextRender]_vars

---------------------------------------------------------------------------
(* One import_file call with its process_json taken step by step: open,    *)
(* read, StocString.process inside the with block, the block's exit, then  *)
(* json.loads, the assertion and the rest of import_file.                  *)

FileTexts == UNION {[1..n -> Chars] : n \in 0..MaxFileLen}

(* A file: open raises, or read raises, or read gives the text *)
LoadFiles ==
    {[readable |-> r, text |-> <<>>] : r \in {"no_open", "no_read"}}
        \cup {[readable |-> "yes", text |-> t] : t \in FileTexts}

(* A with block that closes the file only when it is left normally *)
ExitWith_LeaksOnError(open, raising) == IF raising THEN open ELSE FALSE

(* Leaving the with block, normally or by an exception, closes the file *)
ExitWith(open, raising) == FALSE

(* The Library as import_files(locations=["f2"]) leaves a new one when f2  *)
(* holds a well-formed Location "A"                                        *)
AfterOneImport ==
    LET c == [Base EXCEPT !.description = "d1"]
        only(d) == [i \in Imp |-> IF i = "loc" THEN d ELSE EmptyDict]
    IN  /\ lib = LibraryDicts
        /\ objects = only(Put(EmptyDict, "A", Location(1, "A", "d1")))
        /\ object_source = only(Put(EmptyDict, "A", "f2"))
        /\ file_data = only(Put(EmptyDict, "f2", c))
        /\ file_fails = [i \in Imp |-> EmptyDict]
        /\ failures = [i \in Imp |-> EmptyDict]
        /\ frequency = InitialFrequency
        /\ nextId = 2
        /\ pc = "idle"
        /\ args = [NoArgs EXCEPT !.loc = <<"f2">>]
        /\ trace = <<<<"loc", "f2">>>>
        /\ result = "returned"
        /\ ncalls = 1

InitLoad ==
    /\ InitImp \/ AfterOneImport
    /\ InitTokIdle
    /\ InitRendIdle
    /\ InitDistr
    /\ InitEquip
    /\ lpc = "idle"
    /\ lfile \in LoadFiles
    /\ handle_open = FALSE
    /\ lexc = ""
    /\ lparsed = FALSE

(* import_files is called with one path, for one importer *)
LoadCall ==
    /\ lpc = "idle"
    /\ \E i \in Imp, f \in Paths : ImportFilesCall([NoArgs EXCEPT ![i] = <<f>>])

(* process_json: open(filename) *)
LoadOpen ==
    /\ pc = "running"
    /\ lpc = "idle"
    /\ IF lfile.readable = "no_open"
         THEN /\ lpc' = "raised"
              /\ lexc' = "unreadable"
              /\ UNCHANGED handle_open
       ELSE /\ lpc' = "opened"
            /\ handle_open' = TRUE
            /\ UNCHANGED lexc
    /\ UNCHANGED <<lfile, lparsed>>
    /\ UNCHANGED <<impVars, tokVars, rendVars, distVars, equipVars>>

(* process_json: location_file.read(), and StocString.process begins with  *)
(* StocString(input_string)                                                *)
LoadRead ==
    /\ lpc = "opened"
    /\ IF lfile.readable = "no_read"
         THEN /\ lpc' = "raised"
              /\ lexc' = "unreadable"
              /\ handle_open' = ExitWith(handle_open, TRUE)
              /\ UNCHANGED tokVars
       ELSE /\ lpc' = "process"
            /\ input' = lfile.text
            /\ pos' = 0
            /\ tokens' = <<Str(<<>>)>>
            /\ depth' = 0
            /\ macro_started' = FALSE
            /\ prev' = ""
            /\ tpc' = "scan"
            /\ UNCHANGED <<handle_open, lexc>>
    /\ UNCHANGED <<lfile, lparsed>>
    /\ UNCHANGED <<impVars, rendVars, distVars, equipVars>>

(* StocString.process: str() of the StocString just built *)
LoadRender ==
    /\ lpc = "process"
    /\ rpc = "idle"
    /\ RenderStart

(* process_json: the with block is left, by process returning the text or  *)
(* by the exception of a macro                                             *)
LoadExitWith ==
    /\ lpc = "process"
    /\ rpc \in {"rendered", "failed"}
    /\ handle_open' = ExitWith(handle_open, rpc = "failed")
    /\ IF rpc = "failed"
         THEN /\ lpc' = "raised"
              /\ lexc' = "macro_error"
       ELSE /\ lpc' = "loads"
            /\ UNCHANGED lexc
    /\ UNCHANGED <<lfile, lparsed>>
    /\ UNCHANGED <<impVars, tokVars, rendVars, distVars, equipVars>>

(* What the load hands to the rest of import_file: the failure of the with *)
(* block, or whatever json.loads makes of the rendered text                *)
LoadedContents(i) ==
    IF lexc # "" THEN {[Base EXCEPT !.load = lexc]}
    ELSE {c \in FilesFor(i) : c.load \notin {"unreadable", "macro_error"}}

(* process_json after the with block (json.loads, the assertion) and the   *)
(* rest of import_file                                                     *)
LoadFinish ==
    /\ pc = "running"
    /\ lpc \in {"loads", "raised"}
    /\ \E c \in LoadedContents(NextJob[1]) : ImportFileCall(NextJob[1], NextJob[2], c)
    /\ lpc' = "returned"
    /\ lparsed' = (lpc = "loads")
    /\ UNCHANGED <<lfile, handle_open, lexc>>
    /\ UNCHANGED <<tokVars, rendVars>>

NextLoad ==
    \/ LoadCall
    \/ LoadOpen
    \/ LoadRead
    \/ ScanChar
    \/ ScanEnd
    \/ LoadRender
    \/ RenderToken
    \/ RenderEnd
    \/ LoadExitWith
    \/ LoadFinish

SpecLoad == InitLoad /\ [][NextLoad]_vars

---------------------------------------------------------------------------
(* Library.build_class_distr, between import_files calls that import       *)
(* character classes.  A class stands in the lists as its registry key.    *)

(* Files of the classes A and B of module "mod", with and without a        *)
(* frequency, and one whose frequency is no float                          *)
DistrFiles ==
    {[PlainClassFile EXCEPT !.name = n, !.frequency = f] :
        n \in ModSymbols,
        f \in {NoFreq} \cup {[type |-> "float", val |-> v] : v \in {-1, 0, 2, 3}}}
    \cup {[PlainClassFile EXCEPT !.frequency = [type |-> "int", val |-> 1]]}

(* The elements of a set as a list; the order in which a dict gives its    *)
(* values is not followed                                                  *)
RECURSIVE ToList(_)
ToList(S) ==
    IF S = {} THEN <<>>
    ELSE LET x == CHOOSE y \in S : TRUE IN <<x>> \o ToList(S \ {x})

(* RandDist(items, weights) *)
RandDist(items, weights) ==
    IF \/ Len(items) # Len(weights)
       \/ \E j \in 1..Len(weights) : weights[j] < 0
       \/ \A j \in 1..Len(weights) : weights[j] = 0
      THEN [raised |-> TRUE, exc |-> "EmptyDistributionError", distr |-> None]
    ELSE [raised |-> FALSE, exc |-> "",
          distr |-> [built |-> TRUE, items |-> items, weights |-> weights]]

(* the classes of the registry whose frequency is not negative *)
ToInclude_KeepsZero(reg, freq) == {k \in DOMAIN reg : freq[k] >= 0}

(* [c_class for c_class in self.char_classes.values() if c_class.frequency > 0] *)
ToInclude(reg, freq) == {k \in DOMAIN reg : freq[k] > 0}

NoneEligible_Never(to_include) == FALSE

(* len(to_include) == 0 *)
NoneEligible(to_include) == Len(to_include) = 0

(* build_class_distr on the registry reg, the classes' frequencies freq:   *)
(* how the call ends and the distribution it makes                         *)
build_class_distr(reg, freq) ==
    LET to_include == ToList(ToInclude(reg, freq))
        weights == [j \in 1..Len(to_include) |-> freq[to_include[j]]]
    IN  IF NoneEligible(to_include)
          THEN [raised |-> TRUE, exc |-> "Exception", distr |-> None]
        ELSE RandDist(to_include, weights)

(* A caller calls build_class_distr *)
BuildClassDistr ==
    /\ pc = "idle"
    /\ Len(builds) < MaxBuilds
    /\ LET r == build_class_distr(objects["char"], frequency)
       IN  /\ random_class' = IF r.raised THEN random_class ELSE r.distr
           /\ builds' = Append(builds, r)
    /\ UNCHANGED <<impVars, tokVars, rendVars, loadVars, equipVars>>

(* A caller calls import_files(chars=l) *)
ImportCharsStep ==
    /\ pc = "idle"
    /\ \E l \in PathSeqs(MaxCalls - ncalls) : ImportFilesCall([NoArgs EXCEPT !.char = l])

ImportClassFileStep ==
    /\ pc = "running"
    /\ \E c \in DistrFiles : ImportFile(NextJob[1], NextJob[2], c)

NextDistr == ImportCharsStep \/ ImportClassFileStep \/ BuildClassDistr

SpecDistr == Init /\ [][NextDistr]_vars

---------------------------------------------------------------------------
(* The three importers made without a registry argument, LocationImporter() *)
(* CharacterClassImporter() and ItemImporter(), and a caller that makes    *)
(* import_file calls on them list by list as import_files does             *)

InitDefault ==
    /\ lib = DefaultDicts
    /\ objects = [i \in Imp |-> EmptyDict]
    /\ object_source = [i \in Imp |-> EmptyDict]
    /\ file_data = [i \in Imp |-> EmptyDict]
    /\ file_fails = [i \in Imp |-> EmptyDict]
    /\ failures = [i \in Imp |-> EmptyDict]
    /\ frequency = InitialFrequency
    /\ nextId = 1
    /\ pc = "idle"
    /\ args = NoArgs
    /\ trace = <<>>
    /\ result = "none"
    /\ ncalls = 0
    /\ InitTokIdle
    /\ InitRendIdle
    /\ InitLoadIdle
    /\ InitDistr
    /\ InitEquip

SpecDefault == InitDefault /\ [][Next]_vars

---------------------------------------------------------------------------
(* item.py: EquipTarget.  A name is a sequence of letters; an instance is  *)
(* a key of heap.                                                          *)

Upper(ch) == CASE ch = "a" -> "A" [] ch = "b" -> "B" [] OTHER -> ch

Lower(ch) == CASE ch = "A" -> "a" [] ch = "B" -> "b" [] OTHER -> ch

(* str.capitalize: the first character in upper case, the others in lower *)
capitalize(s) == [k \in 1..Len(s) |-> IF k = 1 THEN Upper(s[k]) ELSE Lower(s[k])]

(* The names EquipTarget is called with *)
EquipNames ==
    {<<>>, <<"a">>, <<"A">>, <<"b">>, <<"B">>,
     <<"a", "b">>, <<"a", "B">>, <<"A", "B">>, <<"A", "b">>, <<"b", "a">>}

(* EquipTarget.__new__(cls, name): the registered instance of the name, or *)
(* a new one                                                               *)
new(name) ==
    IF capitalize(name) \in DOMAIN targets THEN targets[capitalize(name)]
    ELSE Cardinality(DOMAIN heap) + 1

(* an __init__ that registers whatever _targets holds *)
NotRegistered_Always(name) == TRUE

(* EquipTarget.__init__: name not in self._targets *)
NotRegistered(name) == name \notin DOMAIN targets

(* EquipTarget(name): __new__, then __init__ on the instance it returned *)
EquipTarget(name) ==
    LET self == new(name)
        cap  == capitalize(name)
    IN  /\ IF NotRegistered(cap)
             THEN /\ heap' = Put(heap, self, [name |-> cap, target_id |-> next_id])
                  /\ next_id' = next_id + 1
                  /\ targets' = Put(targets, cap, self)
           ELSE UNCHANGED <<heap, next_id, targets>>
        /\ made' = Append(made, [name |-> name, self |-> self,
                                 attrs |-> heap'[self]])

(* A caller, or EquipTarget.make_dict for one of its names, makes an       *)
(* EquipTarget                                                             *)
MakeEquipTarget ==
    /\ Len(made) < MaxMade
    /\ \E name \in EquipNames : EquipTarget(name)
    /\ UNCHANGED <<impVars, tokVars, rendVars, loadVars, distVars>>

NextEquip == MakeEquipTarget

SpecEquip == Init /\ [][NextEquip]_vars

---------------------------------------------------------------------------
(* Library.import_results: the report, as what each importer's part lists  *)

(* str(obj): Location.__str__ gives the name; a class has its type's str   *)
StrOfObject(o) ==
    IF o.kind = "Location" THEN o.name ELSE StrOfClass(o.description, o.name)

(* Importer.__str__: under "SUCCESS LIST" str(obj) of every value of       *)
(* objects, under "FAILURE LIST" the name and the reason of every item of  *)
(* failures                                                                *)
ImporterStr(i) ==
    [success |-> {StrOfObject(objects[i][k]) : k \in DOMAIN objects[i]},
     failure |-> {<<n, failures[i][n]>> : n \in DOMAIN failures[i]}]

(* str(_loc_importer) + str(_item_importer) + str(_char_importer) *)
import_results == [i \in Imp |-> ImporterStr(i)]

---------------------------------------------------------------------------
(* What a claim says of a file's content, read off the content itself *)

LoadFailureCase(c) ==
    \/ c.load \in {"unreadable", "macro_error", "bad_json", "not_mapping"}
    \/ c.name \in {Absent, NonText}

(* A mapping with a text "name" *)
IsRecord(c) == c.load = "ok" /\ c.name \notin {Absent, NonText}

BadShapeCase(c) ==
    /\ IsRecord(c)
    /\ \/ c.items \notin {Absent, "dict"}
       \/ c.exits \notin {Absent, "list"}

WellFormedLocation(c) ==
    /\ IsRecord(c)
    /\ c.description \notin {Absent, NonText}
    /\ c.items \in {Absent, "dict"}
    /\ c.exits \in {Absent, "list"}

(* The call import_file(f) on importer i loads and converts c *)
Succeeds(i, c) == process_json(c) = "" /\ ~DoImport(i, c, nextId).raised

(* All of d but key k is as in e, and k is a key of d *)
SetsOnly(d, e, k) ==
    /\ DOMAIN d = (DOMAIN e) \cup {k}
    /\ \A x \in (DOMAIN e) \ {k} : d[x] = e[x]

LastCall == trace[Len(trace)]

(* C1: whatever the importer and the file, import_file returns normally:   *)
(* no error escapes it to the caller.                                      *)
C1_NoErrorEscapes == result # "raised"

(* C2: when an import_files call has ended, every path of the supplied     *)
(* lists has been passed to its importer's import_file exactly once and in *)
(* list order, whatever happened to the files before it.                   *)
C2_EveryPathInOrder ==
    (pc = "idle" /\ result # "none") => trace = Todo(args)

(* C3: when loading the file fails (unreadable, a macro fails, malformed   *)
(* text, top-level value no mapping, "name" missing or not text), the call *)
(* import_file(path) sets fileFailures[path], adds no other key to         *)
(* fileFailures, and leaves the registry and objectFailures as they were.  *)
C3_LoadFailureIsFileFailure ==
    [][\A i \in Imp, f \in Paths, c \in Files :
          (ImportFile(i, f, c) /\ LoadFailureCase(c)) =>
              /\ SetsOnly(file_fails'[i], file_fails[i], f)
              /\ \A j \in Imp \ {i} : file_fails'[j] = file_fails[j]
              /\ objects' = objects
              /\ failures' = failures
              /\ result' # "raised"]_vars

C3_Witness ==
    /\ trace # <<>>
    /\ \E i \in Imp, f \in Paths :
          /\ LastCall = <<i, f>>
          /\ f \in DOMAIN file_fails[i]
          /\ f \notin DOMAIN file_data[i]
          /\ objects[i] = EmptyDict /\ failures[i] = EmptyDict

(* C4: importing a Location record whose "items" is present and no mapping *)
(* or whose "exits" is present and no sequence leaves the registry as it   *)
(* was, sets objectFailures[name] for the record's name and no other key,  *)
(* and records nothing in fileFailures.                                    *)
C4_BadShapeIsObjectFailure ==
    [][\A f \in Paths, c \in Files :
          (ImportFile("loc", f, c) /\ BadShapeCase(c)) =>
              /\ objects' = objects
              /\ SetsOnly(failures'["loc"], failures["loc"], c.name)
              /\ \A j \in Imp \ {"loc"} : failures'[j] = failures[j]
              /\ file_fails' = file_fails
              /\ result' # "raised"]_vars

C4_Witness ==
    /\ trace # <<>>
    /\ \E f \in Paths :
          /\ LastCall = <<"loc", f>>
          /\ f \in DOMAIN file_data["loc"]
          /\ BadShapeCase(file_data["loc"][f])
          /\ file_data["loc"][f].exits = "dict"
          /\ file_data["loc"][f].name \in DOMAIN failures["loc"]
          /\ objects["loc"] = EmptyDict /\ file_fails["loc"] = EmptyDict

(* C5: importing a well-formed Location file into an importer with empty   *)
(* state leaves exactly one registry entry, keyed by the record's name and *)
(* holding a Location with that name and description, and leaves           *)
(* fileFailures and objectFailures empty.                                  *)
C5_WellFormedLocation ==
    [][\A f \in Paths, c \in Files :
          (/\ ImportFile("loc", f, c)
           /\ WellFormedLocation(c)
           /\ objects["loc"] = EmptyDict
           /\ file_fails["loc"] = EmptyDict
           /\ failures["loc"] = EmptyDict) =>
              /\ DOMAIN objects'["loc"] = {c.name}
              /\ objects'["loc"][c.name].kind = "Location"
              /\ objects'["loc"][c.name].name = c.name
              /\ objects'["loc"][c.name].description = c.description
              /\ file_fails'["loc"] = EmptyDict
              /\ failures'["loc"] = EmptyDict
              /\ result' # "raised"]_vars

C5_Witness ==
    /\ ncalls = 1
    /\ trace # <<>>
    /\ \E f \in Paths :
          /\ LastCall = <<"loc", f>>
          /\ f \in DOMAIN file_data["loc"]
          /\ WellFormedLocation(file_data["loc"][f])
          /\ DOMAIN objects["loc"] = {file_data["loc"][f].name}
          /\ file_fails["loc"] = EmptyDict /\ failures["loc"] = EmptyDict

(* C6: a successful import_file of the CharacterClass or the Item importer *)
(* stores the resolved object in the registry under the record's "name".   *)
C6_KeyedByRecordName ==
    [][\A i \in {"char", "item"}, f \in Paths, c \in Files :
          (ImportFile(i, f, c) /\ Succeeds(i, c)) =>
              /\ c.name \in DOMAIN objects'[i]
              /\ objects'[i][c.name] = DoImport(i, c, nextId).obj]_vars

(* C7 as claimed, for every importer: a successful import of a record      *)
(* whose name was imported successfully before leaves an entry for that    *)
(* name, and the object it holds is not the object of the earlier import.  *)
C7_ReimportReplaces ==
    [][\A i \in Imp, f \in Paths, c \in Files :
          (/\ ImportFile(i, f, c)
           /\ Succeeds(i, c)
           /\ \E k \in DOMAIN objects[i] : objects[i][k].name = c.name) =>
              /\ c.name \in DOMAIN objects'[i]
              /\ \A k \in DOMAIN objects[i] :
                    objects[i][k].name = c.name => objects'[i][c.name] # objects[i][k]]_vars

(* C7, amended: for the Location importer, a successful import of a record *)
(* whose name is already in the registry keeps the key set, puts under the *)
(* name the Location built from the later record (its name and             *)
(* description: no merge), and that Location is a new instance, not any    *)
(* instance the registry held before.                                      *)
C7_LocationReimportReplaces ==
    [][\A f \in Paths, c \in Files :
          (/\ ImportFile("loc", f, c)
           /\ WellFormedLocation(c)
           /\ c.name \in DOMAIN objects["loc"]) =>
              /\ SetsOnly(objects'["loc"], objects["loc"], c.name)
              /\ DOMAIN objects'["loc"] = DOMAIN objects["loc"]
              /\ objects'["loc"][c.name].name = c.name
              /\ objects'["loc"][c.name].description = c.description
              /\ \A k \in DOMAIN objects["loc"] :
                    objects'["loc"][c.name].id # objects["loc"][k].id]_vars

C7_Witness ==
    /\ nextId = 3
    /\ Cardinality(DOMAIN objects["loc"]) = 1
    /\ \A k \in DOMAIN objects["loc"] : objects["loc"][k].id = 2

(* C8 as claimed: no record name is at once a key of the registry and a    *)
(* key of objectFailures.                                                  *)
C8_RegistryFailuresDisjoint ==
    \A i \in Imp : (DOMAIN objects[i]) \cap (DOMAIN failures[i]) = {}

(* C8, amended: per attempt, not overall.  One import_file call writes at  *)
(* most one of registry, objectFailures and fileFailures, and removes no   *)
(* key from any of them; so a name that first succeeds and later fails (or *)
(* the reverse) is a key of both the registry and objectFailures.          *)
C8_OneCollectionPerAttempt ==
    [][\A i \in Imp :
          /\ ~(objects'[i] # objects[i] /\ failures'[i] # failures[i])
          /\ ~(objects'[i] # objects[i] /\ file_fails'[i] # file_fails[i])
          /\ ~(failures'[i] # failures[i] /\ file_fails'[i] # file_fails[i])
          /\ DOMAIN objects[i] \subseteq DOMAIN objects'[i]
          /\ DOMAIN failures[i] \subseteq DOMAIN failures'[i]
          /\ DOMAIN file_fails[i] \subseteq DOMAIN file_fails'[i]]_vars

C8_Witness ==
    \E i \in Imp : (DOMAIN objects[i]) \cap (DOMAIN failures[i]) # {}

(* C9: every record that reaches _do_import (every record import_file      *)
(* keeps in file_data, which it does exactly when the load returned) has a *)
(* "name" that is a text and is not the empty text.                        *)
C9_NameNonEmpty ==
    \A i \in Imp : \A f \in DOMAIN file_data[i] :
        file_data[i][f].name \notin {Absent, NonText, ""}

---------------------------------------------------------------------------
(* The tokenizer's claims, read off the input text *)

(* '{' minus '}' among characters a..b of s *)
Balance(s, a, b) ==
    Cardinality({k \in a..b : s[k] = "{"}) - Cardinality({k \in a..b : s[k] = "}"})

(* The first position after the opening brace at o where the depth, 1 at   *)
(* o, is back to 0; 0 when there is none                                   *)
CloseOf(s, o) ==
    LET qs == {q \in (o + 1)..Len(s) : Balance(s, o, q) = 0}
    IN  IF qs = {} THEN 0 ELSE CHOOSE q \in qs : \A r \in qs : q <= r

(* The characters of the input a token stands for *)
RawLen(t) == IF t.macro THEN Len(t.text) + 3 ELSE Len(t.text)

RECURSIVE StartOf(_, _)
StartOf(ts, k) == IF k = 1 THEN 1 ELSE StartOf(ts, k - 1) + RawLen(ts[k - 1])

HasOpener(t) == \E j \in 1..(Len(t) - 1) : t[j] = "!" /\ t[j + 1] = "{"

(* C10: when the scan is done, every macro token stands for an opener "!{" *)
(* of the input and ends at the first '}' where the depth (1 at the        *)
(* opening brace, +1 per '{', -1 per '}') is back to 0; its expression is  *)
(* the text between the "!{" and that '}', nested braces included.  Every  *)
(* "!{" outside a macro opens one: a token that is no macro holds no "!{", *)
(* except the last token when its macro is never closed.                   *)
C10_MacroEndsWhereDepthReturnsToZero ==
    tpc = "done" =>
        \A k \in 1..Len(tokens) :
            LET p == StartOf(tokens, k)
                e == tokens[k].text
            IN  IF tokens[k].macro
                  THEN /\ p + 2 + Len(e) <= Len(input)
                       /\ input[p] = "!" /\ input[p + 1] = "{"
                       /\ CloseOf(input, p + 1) = p + 2 + Len(e)
                       /\ e = SubSeq(input, p + 2, p + 1 + Len(e))
                ELSE \/ ~HasOpener(e)
                     \/ /\ k = Len(tokens)
                        /\ StartsWith(e, <<"!", "{">>)
                        /\ CloseOf(input, p + 1) = 0

(* "!{{a}}": one macro token, its expression "{a}" *)
C10_Witness ==
    /\ tpc = "done"
    /\ input = <<"!", "{", "{", "a", "}", "}">>
    /\ tokens = <<Str(<<>>), StringMacro(input), Str(<<>>)>>
    /\ tokens[2].text = <<"{", "a", "}">>

(* Every '{' of e is closed inside e and no '}' comes before its '{' *)
ProperlyNested(e) ==
    /\ Balance(e, 1, Len(e)) = 0
    /\ \A q \in 1..Len(e) : Balance(e, 1, q) >= 0

(* C11: a text L1 "!{" E "}" L2, with L1 and L2 non-empty and holding no   *)
(* "!{" and E properly nested in braces, scans to exactly three tokens:    *)
(* the literal L1, the macro of expression E, the literal L2.              *)
C11_LiteralMacroLiteral ==
    tpc = "done" =>
        \A a \in 1..Len(input), b \in 0..Len(input) :
            LET n  == Len(input)
                L1 == SubSeq(input, 1, a)
                E  == SubSeq(input, a + 3, a + 2 + b)
                L2 == SubSeq(input, a + 4 + b, n)
            IN  (/\ a + 4 + b <= n
                 /\ input[a + 1] = "!" /\ input[a + 2] = "{"
                 /\ input[a + 3 + b] = "}"
                 /\ ~HasOpener(L1) /\ ~HasOpener(L2)
                 /\ ProperlyNested(E))
                => tokens = <<Str(L1), [macro |-> TRUE, text |-> E], Str(L2)>>

(* "a!{{}}a": the literal "a", the macro "{}", the literal "a" *)
C11_Witness ==
    /\ tpc = "done"
    /\ input = <<"a", "!", "{", "{", "}", "}", "a">>
    /\ Len(tokens) = 3
    /\ tokens[1] = Str(<<"a">>)
    /\ tokens[2] = [macro |-> TRUE, text |-> <<"{", "}">>]
    /\ tokens[3] = Str(<<"a">>)


(* C12: a text whose macro is opened and still open when the input ends   *)
(* (such as "a!{a") does not scan to a token sequence: the scan never ends *)
(* normally with the macro unclosed.                                       *)
C12_UnterminatedMacroFails == ~(tpc = "done" /\ macro_started)

---------------------------------------------------------------------------
(* The rendering's claims *)

MacroTokens == {k \in 1..Len(tokens) : tokens[k].macro}

(* What the eval call made for token k in the current __str__ call gave *)
ValueOf(k) == evals[CHOOSE j \in 1..Len(evals) : evals[j].token = k].value

(* Tokens 1..k in order, a str as it is and a macro as its eval result *)
RECURSIVE Concat(_)
Concat(k) ==
    IF k = 0 THEN <<>>
    ELSE Concat(k - 1) \o (IF tokens[k].macro THEN ValueOf(k) ELSE tokens[k].text)

(* C13: the text a render returns is the concatenation, in token order, of *)
(* every str token as it is and of the result of every macro's evaluation: *)
(* the render has evaluated each macro exactly once, in token order, and   *)
(* no token is dropped, duplicated or reordered.                           *)
C13_RenderConcatenatesInOrder ==
    rpc = "rendered" =>
        /\ \A k \in MacroTokens :
              Cardinality({j \in 1..Len(evals) : evals[j].token = k}) = 1
        /\ \A j \in 1..Len(evals) : evals[j].token \in MacroTokens /\ ~evals[j].raised
        /\ \A j \in 1..(Len(evals) - 1) : evals[j].token < evals[j + 1].token
        /\ output = Concat(Len(tokens))
        /\ renders[Len(renders)] = Returned(output)

(* "!{}a!{}" with results "1" then "2" renders to "1a2" *)
C13_Witness ==
    /\ rpc = "rendered"
    /\ input = <<"!", "{", "}", "a", "!", "{", "}">>
    /\ Len(evals) = 2
    /\ renders[Len(renders)] = Returned(<<"1", "a", "2">>)

(* C14: nothing of an evaluation is kept: whenever a render comes to a     *)
(* macro token, in the first render as in any later one, it calls eval     *)
(* again, the text it adds is that call's result, and the token is left as *)
(* it was.                                                                 *)
C14_NeverMemoized ==
    [][(/\ rpc = "render"
        /\ rpos < Len(tokens)
        /\ tokens[rpos + 1].macro
        /\ (rpos' = rpos + 1 \/ rpc' = "failed"))
       => /\ Len(evals') = Len(evals) + 1
          /\ evals'[Len(evals')].token = rpos + 1
          /\ tokens' = tokens
          /\ rpc' = "render" => output' = output \o evals'[Len(evals')].value
       ]_vars

(* Two renders of the StocString of "!{a}" gave different texts *)
C14_Witness ==
    /\ input = <<"!", "{", "a", "}">>
    /\ Len(renders) = 2
    /\ renders[1].ok /\ renders[2].ok
    /\ renders[1].text # renders[2].text

---------------------------------------------------------------------------
(* The step-by-step load's claims *)

(* An eval call of the render has raised *)
EvalFailed == \E j \in 1..Len(evals) : evals[j].raised

(* C15: once the evaluation of a macro of the file's text has failed, the  *)
(* templating gives its caller no text, partial or other, and json.loads   *)
(* is never called; the import_file call then returns normally having set  *)
(* file_fails[path] and nothing else: objects, object_source, file_data    *)
(* and failures are as before the call.                                    *)
C15_MacroFailureIsFileFailure ==
    [][EvalFailed' =>
          /\ renders' = <<Failed>>
          /\ lpc' # "loads"
          /\ ~lparsed'
          /\ (lpc # "returned" /\ lpc' = "returned") =>
                /\ SetsOnly(file_fails'[NextJob[1]], file_fails[NextJob[1]], NextJob[2])
                /\ \A j \in Imp \ {NextJob[1]} : file_fails'[j] = file_fails[j]
                /\ objects' = objects
                /\ object_source' = object_source
                /\ file_data' = file_data
                /\ failures' = failures
                /\ result' = "returned"
      ]_vars

(* A file "a!{}" whose macro fails, imported into a Library that holds a   *)
(* Location: "a" had been put together and is not returned                 *)
C15_Witness ==
    /\ lpc = "returned"
    /\ EvalFailed
    /\ input = <<"a", "!", "{", "}">>
    /\ output = <<"a">>
    /\ "A" \in DOMAIN objects["loc"]
    /\ "f1" \in DOMAIN file_fails["loc"]

(* C20: the file process_json opens is closed on every way out of the      *)
(* load: when the with block has been left, by a failing read, a failing   *)
(* macro or normally, and so after json.loads, the assertion and the       *)
(* return of import_file, the file is not open.                            *)
C20_FileClosedOnEveryExit ==
    lpc \in {"raised", "loads", "returned"} => ~handle_open

(* import_file has returned after a macro of the opened file failed *)
C20_Witness ==
    /\ lpc = "returned"
    /\ lexc = "macro_error"
    /\ lfile.readable = "yes"
    /\ ~handle_open

---------------------------------------------------------------------------
(* The class distribution's claims *)

Eligible == {k \in DOMAIN objects["char"] : frequency[k] > 0}

(* a build_class_distr call is made in this step *)
BuildCalled == Len(builds') = Len(builds) + 1

LastBuild == builds[Len(builds)]

(* C16: a build_class_distr call made while no class of the character      *)
(* class registry has a frequency above 0, the registry being empty or     *)
(* not, ends by raising the "no valid classes" exception to its caller.    *)
C16_NoEligibleClassRaises ==
    [][(BuildCalled /\ Eligible = {}) =>
          /\ builds'[Len(builds')].raised
          /\ builds'[Len(builds')].exc = "Exception"
      ]_vars

(* A call raised although the registry holds a class: its frequency is 0   *)
(* or less                                                                 *)
C16_Witness ==
    /\ builds # <<>>
    /\ LastBuild.raised
    /\ DOMAIN objects["char"] # {}
    /\ pc = "idle"

(* C17: a build_class_distr call made while some registered class has a    *)
(* frequency above 0 returns and stores a distribution whose items are the *)
(* registered classes with frequency above 0, each once and no other, and  *)
(* whose i-th weight is the frequency the i-th item has at the call; so    *)
(* there are as many weights as items and every weight is positive.  This  *)
(* holds of every call, the registry being what the imports so far made it.*)
C17_DistributionOfEligibleClasses ==
    [][(BuildCalled /\ Eligible # {}) =>
          LET d == random_class'
          IN  /\ ~builds'[Len(builds')].raised
              /\ builds'[Len(builds')].distr = d
              /\ d.built
              /\ {d.items[j] : j \in 1..Len(d.items)} = Eligible
              /\ Len(d.items) = Cardinality(Eligible)
              /\ Len(d.weights) = Len(d.items)
              /\ \A j \in 1..Len(d.items) :
                    d.weights[j] = frequency[d.items[j]] /\ d.weights[j] > 0
      ]_vars

(* A first build over one class, an import, and a second build over two    *)
(* classes of different frequencies                                        *)
C17_Witness ==
    /\ Len(builds) = 2
    /\ ~builds[1].raised /\ ~builds[2].raised
    /\ Len(builds[1].distr.items) = 1
    /\ Len(random_class.items) = 2
    /\ random_class.weights[1] # random_class.weights[2]
    /\ random_class = builds[2].distr

---------------------------------------------------------------------------
(* The report's and the registries' claims *)

(* C18: the report of import_results lists, for each importer, every       *)
(* object of the registry, every entry of failures with its reason and     *)
(* every entry of file_fails with its reason: no file-level failure an     *)
(* importer has recorded is missing from the report.                       *)
C18_ReportCoversEveryOutcome ==
    \A i \in Imp :
        /\ \A k \in DOMAIN objects[i] :
              StrOfObject(objects[i][k]) \in import_results[i].success
        /\ \A n \in DOMAIN failures[i] :
              <<n, failures[i][n]>> \in import_results[i].failure
        /\ \A f \in DOMAIN file_fails[i] :
              <<f, file_fails[i][f]>> \in import_results[i].failure

(* the keys of e are keys of d, and at most one key of d is new or has     *)
(* another value than in e                                                 *)
AddsOrOverwritesOne(d, e) ==
    /\ DOMAIN e \subseteq DOMAIN d
    /\ Cardinality({k \in DOMAIN d : k \notin DOMAIN e \/ d[k] # e[k]}) <= 1

(* C19: imports only add: in no step of any sequence of import_files calls *)
(* does a key leave an importer's objects, file_fails or failures, and a   *)
(* step adds or overwrites at most one entry of each; so what was imported *)
(* before a batch, and before a failure in it, is still in the registry.   *)
C19_ImportsAreAdditive ==
    [][\A i \in Imp :
          /\ AddsOrOverwritesOne(objects'[i], objects[i])
          /\ AddsOrOverwritesOne(file_fails'[i], file_fails[i])
          /\ AddsOrOverwritesOne(failures'[i], failures[i])
      ]_vars

(* A second import_files call has ended by an exception of its only        *)
(* import_file call; the Location of the first call is in the registry     *)
C19_Witness ==
    /\ ncalls = 2
    /\ Len(trace) = 1
    /\ result = "raised"
    /\ DOMAIN objects["loc"] # {}

---------------------------------------------------------------------------
(* C21: importing with the Location importer a record that has a text      *)
(* "name" and no "description" is an object-level failure: import_file     *)
(* returns normally, objects is as before and failures has an entry under  *)
(* the record's name.                                                      *)
C21_MissingDescriptionIsObjectFailure ==
    [][\A f \in Paths, c \in FilesFor("loc") :
          (ImportFile("loc", f, c) /\ IsRecord(c) /\ c.description = Absent) =>
              /\ result' # "raised"
              /\ objects' = objects
              /\ c.name \in DOMAIN failures'["loc"]
      ]_vars

---------------------------------------------------------------------------
(* What a class record says of itself *)

Unresolvable(c) ==
    \/ c.path \in {Absent, NonText}
    \/ c.path \notin Modules
    \/ c.name \notin ModSymbols

InvalidFrequency(c) == c.frequency.type \notin {"absent", "float"}

(* C22: an import_file call of the class importer on a loaded record: when *)
(* it succeeds and the record has a numeric "frequency", the resolved      *)
(* class then has that frequency; when it succeeds and the record has no   *)
(* "frequency", every frequency is as before; when the conversion fails    *)
(* (path or symbol not resolved, frequency no float), every frequency and  *)
(* the registry are as before.                                             *)
C22_FrequencyAssignedOnlyOnSuccess ==
    [][\A f \in Paths, c \in FilesFor("char") :
          (ImportFile("char", f, c) /\ IsRecord(c)) =>
              /\ (Succeeds("char", c) /\ c.frequency.type \in {"float", "int"}) =>
                    /\ frequency'[StrOfClass(c.path, c.name)] = c.frequency.val
                    /\ \A k \in (DOMAIN frequency) \ {StrOfClass(c.path, c.name)} :
                          frequency'[k] = frequency[k]
              /\ (Succeeds("char", c) /\ c.frequency.type = "absent") =>
                    frequency' = frequency
              /\ (Unresolvable(c) \/ InvalidFrequency(c)) =>
                    /\ frequency' = frequency
                    /\ objects' = objects
      ]_vars

(* Class A got frequency 2 from one file; a later file of A without        *)
(* "frequency" was imported and A still has 2                              *)
C22_Witness ==
    /\ trace # <<>>
    /\ LastCall[1] = "char"
    /\ LastCall[2] \in DOMAIN file_data["char"]
    /\ file_data["char"][LastCall[2]] = PlainClassFile
    /\ StrOfClass("mod", "A") \in DOMAIN objects["char"]
    /\ frequency[StrOfClass("mod", "A")] = 2

---------------------------------------------------------------------------
(* The scan's own claims *)

CurrentToken == tokens[Len(tokens)]

(* C23: in every state of the scan of every text, depth is at least 0 and  *)
(* is above 0 exactly when macro_started is true; the token being built is *)
(* a macro in progress (a str that begins with "!{") exactly then; and a   *)
(* macro that has just been opened has depth 1.                            *)
C23_DepthPositiveInsideMacro ==
    /\ depth >= 0
    /\ (depth > 0) <=> macro_started
    /\ (depth > 0) <=>
          (~CurrentToken.macro /\ StartsWith(CurrentToken.text, <<"!", "{">>))
    /\ (macro_started /\ CurrentToken.text = <<"!", "{">>) => depth = 1

(* In the middle of "a!{{a...": inside a nested brace of a macro *)
C23_Witness ==
    /\ tpc = "scan"
    /\ pos = 4
    /\ macro_started
    /\ depth = 2
    /\ CurrentToken = Str(<<"!", "{", "{">>)
    /\ Len(input) > pos

(* A token written back: a str as it is, a macro as "!{" expression "}" *)
Written(t) == IF t.macro THEN <<"!", "{">> \o t.text \o <<"}">> ELSE t.text

RECURSIVE WrittenUpTo(_)
WrittenUpTo(k) == IF k = 0 THEN <<>> ELSE WrittenUpTo(k - 1) \o Written(tokens[k])

(* C24: the scan loses nothing: after every character read, and so when    *)
(* the scan is done, the tokens written back in order are the text read so *)
(* far, whether or not a macro is still open at its end.                   *)
C24_TokensReproduceInput ==
    /\ WrittenUpTo(Len(tokens)) = SubSeq(input, 1, pos)
    /\ tpc = "done" => WrittenUpTo(Len(tokens)) = input

(* "!!{}!{a": a '!' before no '{', a closed macro, and right after it a    *)
(* macro that is never closed                                              *)
C24_Witness ==
    /\ tpc = "done"
    /\ input = <<"!", "!", "{", "}", "!", "{", "a">>
    /\ Len(tokens) = 4
    /\ tokens[2].macro
    /\ macro_started

---------------------------------------------------------------------------
(* C25: an import_file call on one importer changes none of the objects,   *)
(* object_source, file_fails and failures of another importer; so of the   *)
(* importers of a Library, so of importers made without a registry         *)
(* argument.                                                               *)
C25_ImportersAreIsolated ==
    [][\A i \in Imp, f \in Paths, c \in Files :
          ImportFile(i, f, c) =>
              \A j \in Imp \ {i} :
                  /\ objects'[j] = objects[j]
                  /\ object_source'[j] = object_source[j]
                  /\ file_fails'[j] = file_fails[j]
                  /\ failures'[j] = failures[j]
      ]_vars

---------------------------------------------------------------------------
(* EquipTarget's claim *)

(* The same letter, in whatever case *)
SameLetter(x, y) == x = y \/ {x, y} = {"a", "A"} \/ {x, y} = {"b", "B"}

(* Names that are equal once capitalized: letter by letter the same, case  *)
(* apart                                                                   *)
EqualCapitalized(n, m) ==
    /\ Len(n) = Len(m)
    /\ \A k \in 1..Len(n) : SameLetter(n[k], m[k])

Registered == {targets[n] : n \in DOMAIN targets}

(* C26: after any sequence of EquipTarget(name) calls: two calls whose     *)
(* names are equal once capitalized gave the same instance, and calls      *)
(* whose names are not gave instances of different target_id; every        *)
(* instance still has the name and the target_id it had when a call        *)
(* returned it; and next_id is the number of registered targets.           *)
C26_EquipTargetInterned ==
    /\ \A p, q \in 1..Len(made) :
          IF EqualCapitalized(made[p].name, made[q].name)
            THEN made[p].self = made[q].self
          ELSE heap[made[p].self].target_id # heap[made[q].self].target_id
    /\ \A n, m \in DOMAIN targets :
          n # m => heap[targets[n]].target_id # heap[targets[m]].target_id
    /\ \A p \in 1..Len(made) : heap[made[p].self] = made[p].attrs
    /\ \A n \in DOMAIN targets : heap[targets[n]].name = n
    /\ next_id = Cardinality(DOMAIN targets)
    /\ next_id = Cardinality(Registered)

(* EquipTarget("ab"), EquipTarget("AB") and EquipTarget("b"): the first    *)
(* two are one instance, with id 0; the third has id 1                     *)
C26_Witness ==
    /\ Len(made) = 3
    /\ made[1].name = <<"a", "b">>
    /\ made[2].name = <<"A", "B">>
    /\ made[3].name = <<"b">>
    /\ made[1].self = made[2].self
    /\ heap[made[2].self] = [name |-> <<"A", "b">>, target_id |-> 0]
    /\ heap[made[3].self] = [name |-> <<"B">>, target_id |-> 1]
    /\ next_id = 2

=============================================================================
